---- MODULE Spec2Model ----
(***************************************************************************)
(* A model of IlmThread's ThreadPool (IlmThreadPool.cpp): the shared task  *)
(* FIFO, the worker threads' run loop, TaskGroup's inverted semaphore,     *)
(* addTask, setNumThreads, finish and the pool's destructor.               *)
(*                                                                         *)
(* Every thread is a process with a program counter.  A step of a thread   *)
(* is the run of statements from one blocking operation (a semaphore wait, *)
(* a mutex acquisition, a join) or one call of Task::execute to the next;  *)
(* a critical section that only touches what its mutex protects and does   *)
(* not block is one step.  Mutexes hold their owner's thread id,           *)
(* semaphores hold their count.  Task::execute is a step that ends and     *)
(* does not use the pool.                                                  *)
(***************************************************************************)
EXTENDS Integers, Sequences, FiniteSets, TLC

\* ------------------------------------------------------------------ bounds

\* The largest count setNumThreads is called with (worker ids are 1..MaxThreads).
MaxThreads == 2

\* The number of Task objects the callers construct and submit.
MaxTasks == 2

\* ------------------------------------------------------------------ threads

Free == 0

\* Worker thread ids: a WorkerThread object and its native thread.
Workers == 1 .. MaxThreads

\* Caller threads: application threads using the pool's public interface.
Callers == {101, 102}

\* The caller that also resizes and destroys the pool; setNumThreads and the
\* destructor hold threadMutex from their first statement to their last, so
\* two of them never interleave.
Resizers == {102}

\* The TaskGroup object a caller owns: it constructs the group, submits tasks
\* bound to it and destroys it.
GroupOf(c) == c - 100

Groups == {GroupOf(c) : c \in Callers}

NoGroup == 0

TaskIds == 1 .. MaxTasks

\* The counts setNumThreads is called with; -1 stands for every negative int.
Counts == -1 .. MaxThreads

VARIABLES
    \* ThreadPool::Data
    tasks,            \* list<Task*> tasks
    numTasks,         \* size_t numTasks
    threads,          \* list<WorkerThread*> threads
    numThreads,       \* size_t numThreads
    stopping,         \* bool stopping
    taskSemaphore,    \* Semaphore taskSemaphore
    threadSemaphore,  \* Semaphore threadSemaphore
    taskMutex,        \* Mutex taskMutex (owner or Free)
    threadMutex,      \* Mutex threadMutex
    stopMutex,        \* Mutex stopMutex
    poolAlive,        \* FALSE once ~ThreadPool has been entered
    \* TaskGroup::Data, per group
    numPending,       \* int numPending
    isEmpty,          \* Semaphore isEmpty
    gstate,           \* "alive", "draining" (in ~Data) or "destroyed"
    \* Task objects
    nextTask,         \* number of Task objects constructed so far
    taskGroup,        \* Task::_group
    \* WorkerThread::run, per worker
    wpc,              \* position in run()
    wtask,            \* the local variable task (0: none)
    \* caller threads
    pc,               \* position in the called function
    op,               \* the public function the caller is in
    arg,              \* its argument: a task id or a thread count
    idx,              \* the loop variable i of finish()
    \* history of each task, and the order of the push_back calls
    hist,
    pushed

poolVars == <<tasks, numTasks, threads, numThreads, stopping, taskSemaphore,
              threadSemaphore, taskMutex, threadMutex, stopMutex, poolAlive>>
groupVars == <<numPending, isEmpty, gstate>>
taskVars == <<nextTask, taskGroup>>
workerVars == <<wpc, wtask>>
callerVars == <<pc, op, arg, idx>>
histVars == <<hist, pushed>>

vars == <<poolVars, groupVars, taskVars, workerVars, callerVars, histVars>>

\* ------------------------------------------------------------------ helpers

SeqToSet(s) == {s[k] : k \in 1 .. Len(s)}

NoHist == [caller |-> 0, path |-> "none", runner |-> "none", execs |-> 0,
           done |-> FALSE, posted |-> FALSE]

\* Task::execute is entered by thread th: the thread that called addTask, or
\* another one.
Entered(h, th) == [h EXCEPT !.runner = IF th = h.caller THEN "caller" ELSE "other",
                            !.execs = h.execs + 1]

\* ---------------------------------------------------------- TaskGroup::Data

\* A TaskGroup::Data::addTask that never closes the gate.
GroupWasEmptyNever(n) == FALSE

\* An addTask that also waits when one task is pending: if (numPending++ <= 1).
GroupWasEmptyOrOne(n) == n <= 1

\* numPending++ == 0 : the group was empty, the caller has to close the gate.
GroupWasEmpty(n) == n = 0

\* A removeTask that tests the count before decrementing it: if (numPending-- == 0).
GroupBecomesEmptyLate(n) == n = 0

\* --numPending == 0 : the last pending task is gone, the gate opens.
GroupBecomesEmpty(n) == n - 1 = 0

\* ------------------------------------------------------------- the initial state

Init ==
    /\ tasks = <<>>
    /\ numTasks = 0
    /\ threads = <<>>
    /\ numThreads = 0
    /\ stopping = FALSE
    /\ taskSemaphore = 0
    /\ threadSemaphore = 0
    /\ taskMutex = Free
    /\ threadMutex = Free
    /\ stopMutex = Free
    /\ poolAlive = TRUE
    /\ numPending = [g \in Groups |-> 0]
    /\ isEmpty = [g \in Groups |-> 1]
    /\ gstate = [g \in Groups |-> "alive"]
    /\ nextTask = 0
    /\ taskGroup = [t \in TaskIds |-> NoGroup]
    /\ wpc = [w \in Workers |-> "none"]
    /\ wtask = [w \in Workers |-> 0]
    /\ pc = [c \in Callers |-> "idle"]
    /\ op = [c \in Callers |-> "none"]
    /\ arg = [c \in Callers |-> 0]
    /\ idx = [c \in Callers |-> 0]
    /\ hist = [t \in TaskIds |-> NoHist]
    /\ pushed = <<>>

\* ------------------------------------------------------------ WorkerThread::run

\* A worker that stops popping as soon as the pool is stopping:
\* if (numTasks > 0 && !stopping).
QueueHasTaskUnlessStopping(n) == n > 0 /\ ~stopping

\* A worker that takes the last task for none: if (numTasks > 1).
QueueHasTaskButOne(n) == n > 1

\* if (_data->numTasks > 0)
QueueHasTask(n) == n > 0

\* A worker that takes the newest task and removes the oldest: tasks.back ().
FrontTaskBack(q) == q[Len(q)]

\* tasks.front ()
FrontTask(q) == Head(q)

\* A worker that leaves the task it has taken in the list.
PopFrontForgotten(q) == q

\* tasks.pop_front ()
PopFront(q) == Tail(q)

\* A worker that keeps the queue lock while it executes (no taskLock.release ()).
TaskLockKept(w) == w

\* taskLock.release (); before task->execute () : the owner of taskMutex
\* while worker w executes
TaskLockDuringExecute(w) == Free

\* else if (_data->stopped ()) break;
LeavesLoop(stop) == stop

\* _data->threadSemaphore.post ();
WorkerStarted(w) ==
    /\ wpc[w] = "start"
    /\ threadSemaphore' = threadSemaphore + 1
    /\ wpc' = [wpc EXCEPT ![w] = "waitTask"]
    /\ UNCHANGED <<tasks, numTasks, threads, numThreads, stopping, taskSemaphore,
                   taskMutex, threadMutex, stopMutex, poolAlive>>
    /\ UNCHANGED <<groupVars, taskVars, wtask, callerVars, histVars>>

\* _data->taskSemaphore.wait ();
WorkerWaitTask(w) ==
    /\ wpc[w] = "waitTask"
    /\ taskSemaphore > 0
    /\ taskSemaphore' = taskSemaphore - 1
    /\ wpc' = [wpc EXCEPT ![w] = "lockTask"]
    /\ UNCHANGED <<tasks, numTasks, threads, numThreads, stopping, threadSemaphore,
                   taskMutex, threadMutex, stopMutex, poolAlive>>
    /\ UNCHANGED <<groupVars, taskVars, wtask, callerVars, histVars>>

\* Lock taskLock (taskMutex); if (numTasks > 0) { task = tasks.front ();
\* taskGroup = task->group (); tasks.pop_front (); numTasks--;
\* taskLock.release (); task->execute ();   (execute is entered)
WorkerDequeue(w) ==
    /\ wpc[w] = "lockTask"
    /\ taskMutex = Free
    /\ QueueHasTask(numTasks)
    /\ wtask' = [wtask EXCEPT ![w] = FrontTask(tasks)]
    /\ tasks' = PopFront(tasks)
    /\ numTasks' = numTasks - 1
    /\ taskMutex' = TaskLockDuringExecute(w)
    /\ hist' = [hist EXCEPT ![FrontTask(tasks)] = Entered(@, w)]
    /\ wpc' = [wpc EXCEPT ![w] = "exec"]
    /\ UNCHANGED <<threads, numThreads, stopping, taskSemaphore, threadSemaphore,
                   threadMutex, stopMutex, poolAlive>>
    /\ UNCHANGED <<groupVars, taskVars, callerVars, pushed>>

\* task->execute () returns
WorkerExecuted(w) ==
    /\ wpc[w] = "exec"
    /\ hist' = [hist EXCEPT ![wtask[w]].done = TRUE]
    /\ wpc' = [wpc EXCEPT ![w] = "reacquire"]
    /\ UNCHANGED <<poolVars, groupVars, taskVars, wtask, callerVars, pushed>>

\* taskLock.acquire (); delete task; taskGroup->_data->removeTask (); }
\* and the end of taskLock's scope
WorkerRetire(w) ==
    LET g == taskGroup[wtask[w]] IN
    /\ wpc[w] = "reacquire"
    /\ taskMutex = Free
    /\ numPending' = [numPending EXCEPT ![g] = @ - 1]
    /\ isEmpty' = [isEmpty EXCEPT ![g] =
                      IF GroupBecomesEmpty(numPending[g]) THEN @ + 1 ELSE @]
    /\ wtask' = [wtask EXCEPT ![w] = 0]
    /\ taskMutex' = Free
    /\ wpc' = [wpc EXCEPT ![w] = "waitTask"]
    /\ UNCHANGED <<tasks, numTasks, threads, numThreads, stopping, taskSemaphore,
                   threadSemaphore, threadMutex, stopMutex, poolAlive>>
    /\ UNCHANGED <<gstate, taskVars, callerVars, histVars>>

\* Lock taskLock (taskMutex); numTasks > 0 is false
WorkerFindEmpty(w) ==
    /\ wpc[w] = "lockTask"
    /\ taskMutex = Free
    /\ ~QueueHasTask(numTasks)
    /\ taskMutex' = w
    /\ wpc' = [wpc EXCEPT ![w] = "checkStop"]
    /\ UNCHANGED <<tasks, numTasks, threads, numThreads, stopping, taskSemaphore,
                   threadSemaphore, threadMutex, stopMutex, poolAlive>>
    /\ UNCHANGED <<groupVars, taskVars, wtask, callerVars, histVars>>

\* else if (_data->stopped ()) : stopped () takes stopMutex
WorkerEnterStopped(w) ==
    /\ wpc[w] = "checkStop"
    /\ stopMutex = Free
    /\ stopMutex' = w
    /\ wpc' = [wpc EXCEPT ![w] = "inStopped"]
    /\ UNCHANGED <<tasks, numTasks, threads, numThreads, stopping, taskSemaphore,
                   threadSemaphore, taskMutex, threadMutex, poolAlive>>
    /\ UNCHANGED <<groupVars, taskVars, wtask, callerVars, histVars>>

\* return stopping; ... break;  or the next iteration; taskLock's scope ends
WorkerLeaveStopped(w) ==
    /\ wpc[w] = "inStopped"
    /\ stopMutex' = Free
    /\ taskMutex' = Free
    /\ wpc' = [wpc EXCEPT ![w] = IF LeavesLoop(stopping) THEN "exited" ELSE "waitTask"]
    /\ UNCHANGED <<tasks, numTasks, threads, numThreads, stopping, taskSemaphore,
                   threadSemaphore, threadMutex, poolAlive>>
    /\ UNCHANGED <<groupVars, taskVars, wtask, callerVars, histVars>>

\* ------------------------------------------------------------ ThreadPool::addTask

\* An addTask that queues the task whatever the number of threads.
RunsInlineNever(n) == FALSE

\* An addTask that also runs the task itself on a pool of one thread.
RunsInlineUpToOne(n) == n <= 1

\* if (_data->numThreads == 0)
RunsInline(n) == n = 0

\* An addTask that puts the task at the head: tasks.push_front (task).
PushFront(q, t) == <<t>> \o q

\* _data->tasks.push_back (task);
PushBack(q, t) == Append(q, t)

\* A caller constructs a Task bound to its group and calls addTask (task).
CallAddTask(c) ==
    /\ pc[c] = "idle"
    /\ poolAlive
    /\ nextTask < MaxTasks
    /\ gstate[GroupOf(c)] = "alive"
    /\ nextTask' = nextTask + 1
    /\ taskGroup' = [taskGroup EXCEPT ![nextTask + 1] = GroupOf(c)]
    /\ hist' = [hist EXCEPT ![nextTask + 1].caller = c]
    /\ pc' = [pc EXCEPT ![c] = "aLockThread"]
    /\ op' = [op EXCEPT ![c] = "addTask"]
    /\ arg' = [arg EXCEPT ![c] = nextTask + 1]
    /\ UNCHANGED <<poolVars, groupVars, workerVars, idx, pushed>>

\* Lock lock (_data->threadMutex); if (numThreads == 0) { task->execute () is entered
AddTaskLockThread(c) ==
    /\ pc[c] = "aLockThread"
    /\ threadMutex = Free
    /\ threadMutex' = c
    /\ IF RunsInline(numThreads)
       THEN /\ pc' = [pc EXCEPT ![c] = "aInline"]
            /\ hist' = [hist EXCEPT ![arg[c]] = Entered([@ EXCEPT !.path = "inline"], c)]
       ELSE /\ pc' = [pc EXCEPT ![c] = "aLockTask"]
            /\ hist' = [hist EXCEPT ![arg[c]].path = "queued"]
    /\ UNCHANGED <<tasks, numTasks, threads, numThreads, stopping, taskSemaphore,
                   threadSemaphore, taskMutex, stopMutex, poolAlive>>
    /\ UNCHANGED <<groupVars, taskVars, workerVars, op, arg, idx, pushed>>

\* task->execute () returns; delete task; } and addTask returns
AddTaskInlineDone(c) ==
    /\ pc[c] = "aInline"
    /\ hist' = [hist EXCEPT ![arg[c]].done = TRUE]
    /\ threadMutex' = Free
    /\ pc' = [pc EXCEPT ![c] = "idle"]
    /\ op' = [op EXCEPT ![c] = "none"]
    /\ arg' = [arg EXCEPT ![c] = 0]
    /\ UNCHANGED <<tasks, numTasks, threads, numThreads, stopping, taskSemaphore,
                   threadSemaphore, taskMutex, stopMutex, poolAlive>>
    /\ UNCHANGED <<groupVars, taskVars, workerVars, idx, pushed>>

\* Lock taskLock (taskMutex); tasks.push_back (task); numTasks++;
\* task->group()->_data->addTask (): if (numPending++ == 0) isEmpty.wait () is
\* still to come, else taskLock's scope ends
AddTaskPush(c) ==
    LET t == arg[c]
        g == taskGroup[t] IN
    /\ pc[c] = "aLockTask"
    /\ taskMutex = Free
    /\ tasks' = PushBack(tasks, t)
    /\ numTasks' = numTasks + 1
    /\ pushed' = Append(pushed, t)
    /\ numPending' = [numPending EXCEPT ![g] = @ + 1]
    /\ IF GroupWasEmpty(numPending[g])
       THEN /\ pc' = [pc EXCEPT ![c] = "aGate"]
            /\ taskMutex' = c
       ELSE /\ pc' = [pc EXCEPT ![c] = "aPost"]
            /\ taskMutex' = Free
    /\ UNCHANGED <<threads, numThreads, stopping, taskSemaphore, threadSemaphore,
                   threadMutex, stopMutex, poolAlive>>
    /\ UNCHANGED <<isEmpty, gstate, taskVars, workerVars, op, arg, idx, hist>>

\* isEmpty.wait (); in TaskGroup::Data::addTask, then taskLock's scope ends
AddTaskGate(c) ==
    LET g == taskGroup[arg[c]] IN
    /\ pc[c] = "aGate"
    /\ isEmpty[g] > 0
    /\ isEmpty' = [isEmpty EXCEPT ![g] = @ - 1]
    /\ taskMutex' = Free
    /\ pc' = [pc EXCEPT ![c] = "aPost"]
    /\ UNCHANGED <<tasks, numTasks, threads, numThreads, stopping, taskSemaphore,
                   threadSemaphore, threadMutex, stopMutex, poolAlive>>
    /\ UNCHANGED <<numPending, gstate, taskVars, workerVars, op, arg, idx, histVars>>

\* _data->taskSemaphore.post (); and addTask returns
AddTaskPost(c) ==
    /\ pc[c] = "aPost"
    /\ taskSemaphore' = taskSemaphore + 1
    /\ hist' = [hist EXCEPT ![arg[c]].posted = TRUE]
    /\ threadMutex' = Free
    /\ pc' = [pc EXCEPT ![c] = "idle"]
    /\ op' = [op EXCEPT ![c] = "none"]
    /\ arg' = [arg EXCEPT ![c] = 0]
    /\ UNCHANGED <<tasks, numTasks, threads, numThreads, stopping, threadSemaphore,
                   taskMutex, stopMutex, poolAlive>>
    /\ UNCHANGED <<groupVars, taskVars, workerVars, idx, pushed>>

\* -------------------------------------------------------- ThreadPool::setNumThreads

\* A setNumThreads without the test of its argument.
CountInvalidUnchecked(count) == FALSE

\* if (count < 0) throw Iex::ArgExc (...)
CountInvalid(count) == count < 0

\* if (count > _data->numThreads) : count is converted to size_t, so a negative
\* count compares as a huge one
MustGrow(count, n) == IF count < 0 THEN TRUE ELSE count > n

\* else if (count < _data->numThreads)
MustShrink(count, n) == IF count < 0 THEN FALSE ELSE count < n

\* A loop that stops one thread short: while (numThreads + 1 < count).
GrowMoreShort(count, n) == IF count < 0 THEN TRUE ELSE n + 1 < count

\* while (_data->numThreads < count)
GrowMore(count, n) == IF count < 0 THEN TRUE ELSE n < count

\* The WorkerThread object the next new WorkerThread (_data) yields.
NewWorker == CHOOSE w \in Workers : wpc[w] = "none" /\ \A v \in Workers : wpc[v] = "none" => w <= v

\* The positions at which setNumThreads is about to return.
SetReturns == {"sGrown", "sRegrown", "sSame"}

CallSetNumThreads(c, count) ==
    /\ pc[c] = "idle"
    /\ c \in Resizers
    /\ poolAlive
    /\ pc' = [pc EXCEPT ![c] = IF CountInvalid(count) THEN "threw" ELSE "sLockThread"]
    /\ op' = [op EXCEPT ![c] = "setNumThreads"]
    /\ arg' = [arg EXCEPT ![c] = count]
    /\ UNCHANGED <<poolVars, groupVars, taskVars, workerVars, idx, histVars>>

\* The ArgExc reaches the caller of setNumThreads.
SetNumThreadsThrown(c) ==
    /\ pc[c] = "threw"
    /\ pc' = [pc EXCEPT ![c] = "idle"]
    /\ op' = [op EXCEPT ![c] = "none"]
    /\ arg' = [arg EXCEPT ![c] = 0]
    /\ UNCHANGED <<poolVars, groupVars, taskVars, workerVars, idx, histVars>>

\* Lock lock (_data->threadMutex); if (count > numThreads) ... else if (count < numThreads)
SetLockThread(c) ==
    /\ pc[c] = "sLockThread"
    /\ threadMutex = Free
    /\ threadMutex' = c
    /\ pc' = [pc EXCEPT ![c] = IF MustGrow(arg[c], numThreads) THEN "sGrow"
                               ELSE IF MustShrink(arg[c], numThreads) THEN "fStop"
                               ELSE "sSame"]
    /\ UNCHANGED <<tasks, numTasks, threads, numThreads, stopping, taskSemaphore,
                   threadSemaphore, taskMutex, stopMutex, poolAlive>>
    /\ UNCHANGED <<groupVars, taskVars, workerVars, op, arg, idx, histVars>>

\* _data->threads.push_back (new WorkerThread (_data)); the constructor starts the thread
Spawn(c, at, to) ==
    /\ pc[c] = at
    /\ \E w \in Workers : wpc[w] = "none"
    /\ threads' = Append(threads, NewWorker)
    /\ wpc' = [wpc EXCEPT ![NewWorker] = "start"]
    /\ pc' = [pc EXCEPT ![c] = to]
    /\ UNCHANGED <<tasks, numTasks, numThreads, stopping, taskSemaphore,
                   threadSemaphore, taskMutex, threadMutex, stopMutex, poolAlive>>
    /\ UNCHANGED <<groupVars, taskVars, wtask, op, arg, idx, histVars>>

\* _data->numThreads++; and the loop's test while (numThreads < count)
CountWorker(c, at, again, after) ==
    /\ pc[c] = at
    /\ numThreads' = numThreads + 1
    /\ pc' = [pc EXCEPT ![c] = IF GrowMore(arg[c], numThreads + 1) THEN again ELSE after]
    /\ UNCHANGED <<tasks, numTasks, threads, stopping, taskSemaphore,
                   threadSemaphore, taskMutex, threadMutex, stopMutex, poolAlive>>
    /\ UNCHANGED <<groupVars, taskVars, workerVars, op, arg, idx, histVars>>

\* the loop of the branch count > numThreads
SetSpawn(c) == Spawn(c, "sGrow", "sInc")
SetCount(c) == CountWorker(c, "sInc", "sGrow", "sGrown")

\* the loop after finish () in the branch count < numThreads
SetRespawn(c) == Spawn(c, "sGrow2", "sInc2")
SetRecount(c) == CountWorker(c, "sInc2", "sGrow2", "sRegrown")

\* setNumThreads returns; lock's scope ends
SetReturn(c) ==
    /\ pc[c] \in SetReturns
    /\ threadMutex' = Free
    /\ pc' = [pc EXCEPT ![c] = "idle"]
    /\ op' = [op EXCEPT ![c] = "none"]
    /\ arg' = [arg EXCEPT ![c] = 0]
    /\ UNCHANGED <<tasks, numTasks, threads, numThreads, stopping, taskSemaphore,
                   threadSemaphore, taskMutex, stopMutex, poolAlive>>
    /\ UNCHANGED <<groupVars, taskVars, workerVars, idx, histVars>>

\* ------------------------------------------------------- ThreadPool::Data::finish

\* A delete that does not wait for the thread.
JoinedAtOnce(w) == TRUE

\* delete (*i) : the Thread destructor joins the native thread, so it returns
\* once run () has returned
Joined(w) == wpc[w] = "exited"

\* A loop that stops one round early: for (int i = 0; i + 1 < numThreads; i++).
MorePostsShort(i, n) == i + 1 < n

\* A loop that runs once too often: for (int i = 0; i <= numThreads; i++).
MorePostsOneMore(i, n) == i <= n

\* for (int i = 0; i < numThreads; i++)
MorePosts(i, n) == i < n

\* A finish () without the loop that deletes the workers.
JoinOrLockSkip(j) == "fLock1"

\* for (i = threads.begin (); i != threads.end (); ++i) : where finish goes on
\* with its iterator at position j
JoinOrLock(j) == IF j < Len(threads) THEN "fJoin" ELSE "fLock1"

\* stop () : Lock lock (stopMutex); stopping = true; and the first loop's test
FinishStop(c) ==
    /\ pc[c] = "fStop"
    /\ stopMutex = Free
    /\ stopping' = TRUE
    /\ idx' = [idx EXCEPT ![c] = 0]
    /\ pc' = [pc EXCEPT ![c] = IF MorePosts(0, numThreads) THEN "fLoop" ELSE JoinOrLock(0)]
    /\ UNCHANGED <<tasks, numTasks, threads, numThreads, taskSemaphore,
                   threadSemaphore, taskMutex, threadMutex, stopMutex, poolAlive>>
    /\ UNCHANGED <<groupVars, taskVars, workerVars, op, arg, histVars>>

\* taskSemaphore.post ();
FinishPost(c) ==
    /\ pc[c] = "fLoop"
    /\ taskSemaphore' = taskSemaphore + 1
    /\ pc' = [pc EXCEPT ![c] = "fWaitThread"]
    /\ UNCHANGED <<tasks, numTasks, threads, numThreads, stopping,
                   threadSemaphore, taskMutex, threadMutex, stopMutex, poolAlive>>
    /\ UNCHANGED <<groupVars, taskVars, workerVars, op, arg, idx, histVars>>

\* threadSemaphore.wait (); i++ and the loop's test
FinishWaitThread(c) ==
    /\ pc[c] = "fWaitThread"
    /\ threadSemaphore > 0
    /\ threadSemaphore' = threadSemaphore - 1
    /\ IF MorePosts(idx[c] + 1, numThreads)
       THEN /\ idx' = [idx EXCEPT ![c] = @ + 1]
            /\ pc' = [pc EXCEPT ![c] = "fLoop"]
       ELSE /\ idx' = [idx EXCEPT ![c] = 0]
            /\ pc' = [pc EXCEPT ![c] = JoinOrLock(0)]
    /\ UNCHANGED <<tasks, numTasks, threads, numThreads, stopping,
                   taskSemaphore, taskMutex, threadMutex, stopMutex, poolAlive>>
    /\ UNCHANGED <<groupVars, taskVars, workerVars, op, arg, histVars>>

\* delete (*i); ++i and the loop's test
FinishJoin(c) ==
    /\ pc[c] = "fJoin"
    /\ Joined(threads[idx[c] + 1])
    /\ idx' = [idx EXCEPT ![c] = IF JoinOrLock(@ + 1) = "fJoin" THEN @ + 1 ELSE 0]
    /\ pc' = [pc EXCEPT ![c] = JoinOrLock(idx[c] + 1)]
    /\ UNCHANGED <<poolVars, groupVars, taskVars, workerVars, op, arg, histVars>>

\* Lock lock1 (taskMutex);
FinishLock1(c) ==
    /\ pc[c] = "fLock1"
    /\ taskMutex = Free
    /\ taskMutex' = c
    /\ pc' = [pc EXCEPT ![c] = "fLock2"]
    /\ UNCHANGED <<tasks, numTasks, threads, numThreads, stopping, taskSemaphore,
                   threadSemaphore, threadMutex, stopMutex, poolAlive>>
    /\ UNCHANGED <<groupVars, taskVars, workerVars, op, arg, idx, histVars>>

\* Lock lock2 (stopMutex); threads.clear (); tasks.clear (); numThreads = 0;
\* numTasks = 0; stopping = false; finish () returns to setNumThreads or to ~Data.
\* The WorkerThread objects whose threads were joined are gone.
FinishClear(c) ==
    /\ pc[c] = "fLock2"
    /\ stopMutex = Free
    /\ threads' = <<>>
    /\ tasks' = <<>>
    /\ numThreads' = 0
    /\ numTasks' = 0
    /\ stopping' = FALSE
    /\ taskMutex' = Free
    /\ pc' = [pc EXCEPT ![c] = IF op[c] # "setNumThreads" THEN "pRet"
                               ELSE IF GrowMore(arg[c], 0) THEN "sGrow2" ELSE "sRegrown"]
    /\ wpc' = [w \in Workers |-> IF wpc[w] = "exited" THEN "none" ELSE wpc[w]]
    /\ UNCHANGED <<taskSemaphore, threadSemaphore, threadMutex, stopMutex, poolAlive>>
    /\ UNCHANGED <<groupVars, taskVars, wtask, op, arg, idx, histVars>>

\* ------------------------------------------------ ThreadPool::~ThreadPool, ~Data

\* delete _data; no other thread uses the pool while it is destroyed
CallDestroyPool(c) ==
    /\ pc[c] = "idle"
    /\ c \in Resizers
    /\ poolAlive
    /\ \A d \in Callers \ {c} : op[d] \in {"none", "drain"}
    /\ poolAlive' = FALSE
    /\ pc' = [pc EXCEPT ![c] = "pLockThread"]
    /\ op' = [op EXCEPT ![c] = "destroyPool"]
    /\ UNCHANGED <<tasks, numTasks, threads, numThreads, stopping, taskSemaphore,
                   threadSemaphore, taskMutex, threadMutex, stopMutex>>
    /\ UNCHANGED <<groupVars, taskVars, workerVars, arg, idx, histVars>>

\* Lock lock (threadMutex); finish ();
PoolLockThread(c) ==
    /\ pc[c] = "pLockThread"
    /\ threadMutex = Free
    /\ threadMutex' = c
    /\ pc' = [pc EXCEPT ![c] = "fStop"]
    /\ UNCHANGED <<tasks, numTasks, threads, numThreads, stopping, taskSemaphore,
                   threadSemaphore, taskMutex, stopMutex, poolAlive>>
    /\ UNCHANGED <<groupVars, taskVars, workerVars, op, arg, idx, histVars>>

\* ~Data returns; lock's scope ends
PoolDestroyed(c) ==
    /\ pc[c] = "pRet"
    /\ threadMutex' = Free
    /\ pc' = [pc EXCEPT ![c] = "idle"]
    /\ op' = [op EXCEPT ![c] = "none"]
    /\ UNCHANGED <<tasks, numTasks, threads, numThreads, stopping, taskSemaphore,
                   threadSemaphore, taskMutex, stopMutex, poolAlive>>
    /\ UNCHANGED <<groupVars, taskVars, workerVars, arg, idx, histVars>>

\* ------------------------------------------------ TaskGroup::~TaskGroup, ~Data

\* delete _data; the drain of the caller's group begins
CallDrain(c) ==
    /\ pc[c] = "idle"
    /\ gstate[GroupOf(c)] = "alive"
    /\ gstate' = [gstate EXCEPT ![GroupOf(c)] = "draining"]
    /\ pc' = [pc EXCEPT ![c] = "dWait"]
    /\ op' = [op EXCEPT ![c] = "drain"]
    /\ arg' = [arg EXCEPT ![c] = GroupOf(c)]
    /\ UNCHANGED <<poolVars, numPending, isEmpty, taskVars, workerVars, idx, histVars>>

\* isEmpty.wait (); and the destructor returns
DrainWait(c) ==
    /\ pc[c] = "dWait"
    /\ isEmpty[arg[c]] > 0
    /\ isEmpty' = [isEmpty EXCEPT ![arg[c]] = @ - 1]
    /\ gstate' = [gstate EXCEPT ![arg[c]] = "destroyed"]
    /\ pc' = [pc EXCEPT ![c] = "idle"]
    /\ op' = [op EXCEPT ![c] = "none"]
    /\ arg' = [arg EXCEPT ![c] = 0]
    /\ UNCHANGED <<poolVars, numPending, taskVars, workerVars, idx, histVars>>

\* ------------------------------------------------------------ the specification

WorkerStep(w) ==
    \/ WorkerStarted(w)
    \/ WorkerWaitTask(w)
    \/ WorkerDequeue(w)
    \/ WorkerExecuted(w)
    \/ WorkerRetire(w)
    \/ WorkerFindEmpty(w)
    \/ WorkerEnterStopped(w)
    \/ WorkerLeaveStopped(w)

\* A caller goes on in the function it has called.
CallerStep(c) ==
    \/ AddTaskLockThread(c)
    \/ AddTaskInlineDone(c)
    \/ AddTaskPush(c)
    \/ AddTaskGate(c)
    \/ AddTaskPost(c)
    \/ SetNumThreadsThrown(c)
    \/ SetLockThread(c)
    \/ SetSpawn(c)
    \/ SetCount(c)
    \/ SetRespawn(c)
    \/ SetRecount(c)
    \/ SetReturn(c)
    \/ FinishStop(c)
    \/ FinishPost(c)
    \/ FinishWaitThread(c)
    \/ FinishJoin(c)
    \/ FinishLock1(c)
    \/ FinishClear(c)
    \/ PoolLockThread(c)
    \/ PoolDestroyed(c)
    \/ DrainWait(c)

\* A caller calls one of the public functions.
CallerCall(c) ==
    \/ CallAddTask(c)
    \/ \E count \in Counts : CallSetNumThreads(c, count)
    \/ CallDestroyPool(c)
    \/ CallDrain(c)

Next ==
    \/ \E w \in Workers : WorkerStep(w)
    \/ \E c \in Callers : CallerStep(c)
    \/ \E c \in Callers : CallerCall(c)

Spec == Init /\ [][Next]_vars

\* The pool used with at most one worker thread: setNumThreads is called with
\* counts up to 1, so the loop after finish (), which needs a count between 0
\* and numThreads, is never entered.
CallerStepOne(c) ==
    \/ AddTaskLockThread(c)
    \/ AddTaskInlineDone(c)
    \/ AddTaskPush(c)
    \/ AddTaskGate(c)
    \/ AddTaskPost(c)
    \/ SetNumThreadsThrown(c)
    \/ SetLockThread(c)
    \/ SetSpawn(c)
    \/ SetCount(c)
    \/ SetReturn(c)
    \/ FinishStop(c)
    \/ FinishPost(c)
    \/ FinishWaitThread(c)
    \/ FinishJoin(c)
    \/ FinishLock1(c)
    \/ FinishClear(c)
    \/ PoolLockThread(c)
    \/ PoolDestroyed(c)
    \/ DrainWait(c)

CallerCallOne(c) ==
    \/ CallAddTask(c)
    \/ \E count \in {n \in Counts : n <= 1} : CallSetNumThreads(c, count)
    \/ CallDestroyPool(c)
    \/ CallDrain(c)

NextOne ==
    \/ \E w \in Workers : WorkerStep(w)
    \/ \E c \in Callers : CallerStepOne(c)
    \/ \E c \in Callers : CallerCallOne(c)

SpecOne == Init /\ [][NextOne]_vars

\* Every thread that can take a step eventually takes one: the worker threads
\* and the callers inside a function run on; nothing makes a caller call.
Fairness ==
    /\ \A w \in Workers : WF_vars(WorkerStep(w))
    /\ \A c \in Callers : WF_vars(CallerStep(c))

FairSpec == Spec /\ Fairness

\* The mutexes and semaphores hand over to every thread that keeps asking: a
\* thread whose next step is possible again and again eventually takes it,
\* even if other threads take the mutex it waits for in between.
LockFairness ==
    /\ \A w \in Workers : SF_vars(WorkerStep(w))
    /\ \A c \in Callers : SF_vars(CallerStep(c))

LockFairSpec == Spec /\ LockFairness

\* ------------------------------------------------------------------ properties

\* The tasks constructed so far.
Issued == 1 .. nextTask

\* addTask (t) has been called and has returned.
Returned(t) == t \in Issued /\ \A c \in Callers : ~(op[c] = "addTask" /\ arg[c] = t)

\* The threads inside Task::execute.
ExecutingWorkers == {w \in Workers : wpc[w] = "exec"}
InlineCallers == {c \in Callers : pc[c] = "aInline"}

\* The pool's mutexes thread th holds.
Holds(th) == {m \in {"threadMutex", "taskMutex", "stopMutex"} :
                 \/ m = "threadMutex" /\ threadMutex = th
                 \/ m = "taskMutex" /\ taskMutex = th
                 \/ m = "stopMutex" /\ stopMutex = th}

\* The positions of a caller at which finish () has joined every worker, up to
\* the return of the function that called finish ().
AfterJoin == {"fLock1", "fLock2", "sGrow2", "sInc2", "sRegrown", "pRet"}

\* C1: on a pool with worker threads every task addTask has accepted has its
\* execute () called exactly once: never twice, and eventually once.
C1_ExactlyOnce ==
    /\ [](\A t \in TaskIds : hist[t].execs <= 1)
    /\ \A t \in TaskIds :
          (hist[t].path = "queued") ~> (hist[t].done /\ hist[t].execs = 1)

C1_Witness ==
    \E t \in TaskIds : hist[t].path = "queued" /\ hist[t].done /\ numThreads > 0

\* C2: when the destructor of a TaskGroup has returned, execute () has returned
\* for every task bound to the group (all of them were submitted before the
\* drain began).
C2_DrainAfterCompletion ==
    \A g \in Groups : gstate[g] = "destroyed" =>
        \A t \in Issued : taskGroup[t] = g => hist[t].done

C2_Witness ==
    \E g \in Groups : /\ gstate[g] = "destroyed"
                      /\ \E t \in Issued : taskGroup[t] = g /\ hist[t].path = "queued"

\* C3: a caller blocked in the drain of its group is eventually released.
C3_DrainReturns ==
    \A c \in Callers : (pc[c] = "dWait") ~> (pc[c] # "dWait")

C3_Witness ==
    \E c \in Callers : /\ pc[c] = "dWait"
                       /\ numPending[arg[c]] > 0
                       /\ isEmpty[arg[c]] = 0

\* C4: once finish () has joined the workers (in a shrinking setNumThreads or in
\* the pool's destructor), and until the caller returns, the queue is empty and
\* every task that was pushed has been executed: tasks.clear () drops nothing.
C4_ShrinkDrainsQueue ==
    \A c \in Callers : pc[c] \in AfterJoin =>
        /\ tasks = <<>>
        /\ numTasks = 0
        /\ \A t \in SeqToSet(pushed) : hist[t].done

\* finish () waits in its join loop while a task is queued and another executes.
C4_Witness ==
    \E c \in Callers : /\ pc[c] = "fJoin"
                       /\ numTasks > 0
                       /\ ExecutingWorkers # {}

\* C5: when setNumThreads (n) is about to return, numThreads is n.
C5_NumThreadsIsCount ==
    \A c \in Callers : pc[c] \in SetReturns =>
        /\ numThreads = arg[c]
        /\ Len(threads) = arg[c]

\* setNumThreads (1) returns after it has shrunk a pool that had run tasks.
C5_Witness ==
    \E c \in Callers : pc[c] = "sRegrown" /\ arg[c] = 1 /\ pushed # <<>>

\* C6: every step of a caller in setNumThreads (n), n < 0, is the call that
\* throws or the exception reaching the caller, and changes nothing of the
\* pool, the workers, the groups or the tasks.
C6_NegativeCountRejected ==
    [][\A c \in Callers :
          (/\ pc'[c] # pc[c]
           /\ \/ op[c] = "setNumThreads" /\ arg[c] < 0
              \/ op'[c] = "setNumThreads" /\ arg'[c] < 0)
          => /\ pc[c] \in {"idle", "threw"}
             /\ pc'[c] \in {"idle", "threw"}
             /\ UNCHANGED <<poolVars, groupVars, workerVars, taskVars, histVars>>]_vars

\* The exception is thrown on a pool that has workers and a queued task.
C6_Witness ==
    \E c \in Callers : pc[c] = "threw" /\ numThreads > 0 /\ numTasks > 0

\* C7: a thread inside Task::execute, a worker or a caller running the task
\* inline, holds none of the pool's mutexes.
C7_NoLockAcrossExecute ==
    /\ \A w \in ExecutingWorkers : Holds(w) = {}
    /\ \A c \in InlineCallers : Holds(c) = {}

\* C8: the threads inside execute () are workers of the pool's thread list, and
\* with P > 0 workers in the list at most P threads are inside execute ();
\* outside setNumThreads and finish, P is numThreads.
C8_AtMostPExecuting ==
    /\ ExecutingWorkers \subseteq SeqToSet(threads)
    /\ Len(threads) > 0 =>
          Cardinality(ExecutingWorkers) + Cardinality(InlineCallers) <= Len(threads)
    /\ threadMutex = Free => numThreads = Len(threads)

\* Two workers execute at once on a pool of two.
C8_Witness ==
    /\ Cardinality(ExecutingWorkers) = 2
    /\ numThreads = 2
    /\ threadMutex = Free

\* C9: on a pool that never has more than one worker, a task pushed after
\* another one does not enter execute () before the other has left it.
C9_SingleWorkerFifo ==
    \A i, j \in 1 .. Len(pushed) :
        (i < j /\ hist[pushed[j]].execs > 0) => hist[pushed[i]].done

\* The second of two queued tasks has been entered.
C9_Witness ==
    /\ Len(pushed) >= 2
    /\ hist[pushed[2]].execs > 0
    /\ hist[pushed[2]].runner = "other"

\* C10: addTask takes the inline branch exactly on a pool without threads; a
\* task that took it is never pushed and never posted for, is executed once,
\* by the thread that called addTask, before addTask returns, and the inline
\* tasks of one caller are executed in the order of the calls.
C10_InlineOnEmptyPool ==
    /\ \A c \in Callers :
          /\ pc[c] = "aInline" =>
                numThreads = 0 /\ threads = <<>> /\ tasks = <<>> /\ taskSemaphore = 0
          /\ pc[c] \in {"aLockTask", "aGate", "aPost"} => numThreads > 0
    /\ \A t \in Issued : hist[t].path = "inline" =>
          /\ t \notin SeqToSet(pushed)
          /\ ~hist[t].posted
          /\ hist[t].execs = 1
          /\ hist[t].runner = "caller"
          /\ Returned(t) => hist[t].done
          /\ \A u \in Issued :
                (/\ u < t
                 /\ hist[u].caller = hist[t].caller
                 /\ hist[u].path = "inline") => hist[u].done

\* One caller has run two tasks inline.
C10_Witness ==
    \E t, u \in Issued :
        /\ u < t
        /\ hist[u].caller = hist[t].caller
        /\ hist[u].path = "inline" /\ hist[t].path = "inline"
        /\ hist[t].done /\ Returned(t)

\* C11: while a caller runs a task inline on a pool without threads, the
\* task's group has had addTask () called for it: its pending count is 1 and
\* its gate is closed.
C11_InlineGroupBookkeeping ==
    \A c \in InlineCallers :
        /\ numPending[taskGroup[arg[c]]] = 1
        /\ isEmpty[taskGroup[arg[c]]] = 0

\* The callers inside addTask or setNumThreads.
InCall == {c \in Callers : op[c] \in {"addTask", "setNumThreads"}}

\* Some thread can go on: a worker in run (), or a caller in the function it called.
SomeThreadRuns == (\E w \in Workers : WorkerStep(w)) \/ (\E c \in Callers : CallerStep(c))

\* C12: with addTask called from both callers and setNumThreads growing,
\* shrinking and shrinking to 0 in between, no state in which a caller is
\* inside one of the two functions is a deadlock, and every such call returns.
C12_CallsReturn ==
    /\ [](InCall # {} => ENABLED SomeThreadRuns)
    /\ \A c \in Callers : (c \in InCall) ~> (op[c] = "none")

\* One caller waits for threadMutex in addTask while the other, shrinking the
\* pool, waits in finish () for a worker that executes a task.
C12_Witness ==
    \E c, d \in Callers :
        /\ op[c] = "addTask" /\ pc[c] = "aLockThread"
        /\ op[d] = "setNumThreads" /\ pc[d] = "fJoin"
        /\ ExecutingWorkers # {}

\* The mutex a caller inside addTask is waiting for (Free: none).
AddTaskWaitsFor(c) == IF pc[c] = "aLockThread" THEN threadMutex
                      ELSE IF pc[c] = "aLockTask" THEN taskMutex
                      ELSE Free

\* Thread th cannot go on before some execute () has returned: it is inside
\* execute (), or it is in finish () joining a worker that is.
NeedsExecute(th) ==
    \/ th \in ExecutingWorkers
    \/ th \in InlineCallers
    \/ /\ th \in Callers
       /\ pc[th] = "fJoin"
       /\ threads[idx[th] + 1] \in ExecutingWorkers

\* C13: a caller inside addTask on a pool with workers never waits for a mutex
\* whose holder cannot go on before an execute () has returned.
C13_AddTaskNeverWaitsOnExecute ==
    \A c \in Callers :
        (op[c] = "addTask" /\ numThreads > 0 /\ AddTaskWaitsFor(c) # Free)
            => ~NeedsExecute(AddTaskWaitsFor(c))

\* Once addTask holds threadMutex on a pool with workers, taskMutex is free or
\* held by a worker between its test of numTasks and the end of stopped ():
\* the queue lock itself is never held across an execute ().
QueueLockShortlyHeld ==
    \A c \in Callers :
        pc[c] = "aLockTask" =>
            \/ taskMutex = Free
            \/ /\ taskMutex \in Workers
               /\ wpc[taskMutex] \in {"checkStop", "inStopped"}
               /\ stopMutex \in {Free, taskMutex}

\* A caller is inside TaskGroup::Data::addTask of group g, between numPending++
\* and isEmpty.wait (); removeTask is one step.
InGroupBody(g) == \E c \in Callers : pc[c] = "aGate" /\ taskGroup[arg[c]] = g

\* C14: numPending is never negative and isEmpty never above 1; outside the
\* bodies of the group's addTask and removeTask, numPending is 0 exactly when
\* the gate is open (for a group that still exists); and the isEmpty.wait ()
\* of addTask finds the gate open, so it does not block.
C14_GroupInvariants ==
    /\ \A g \in Groups :
          /\ numPending[g] >= 0
          /\ isEmpty[g] \in {0, 1}
          /\ (gstate[g] # "destroyed" /\ ~InGroupBody(g))
                => (numPending[g] = 0 <=> isEmpty[g] = 1)
    /\ \A c \in Callers : pc[c] = "aGate" => isEmpty[taskGroup[arg[c]]] = 1

\* A group is closed for the second time, after its first task was retired.
C14_Witness ==
    \E c \in Callers :
        /\ pc[c] = "aGate"
        /\ \E t \in Issued : /\ taskGroup[t] = taskGroup[arg[c]]
                             /\ hist[t].path = "queued"
                             /\ hist[t].done

\* The task has been retired: execute () has returned and the worker that ran
\* it has called removeTask () and let go of it.
Retired(t) == hist[t].done /\ \A w \in Workers : wtask[w] # t

\* The tasks of group g that addTask pushed on a pool with workers and that are
\* not yet retired: queued, being executed, or executed and awaiting removeTask.
Unretired(g) == {t \in SeqToSet(pushed) : taskGroup[t] = g /\ ~Retired(t)}

\* C15: whenever taskMutex is free, the pending count of every group is the
\* number of its pushed tasks that are not yet retired.
C15_PendingCountsUnretired ==
    taskMutex = Free =>
        \A g \in Groups : numPending[g] = Cardinality(Unretired(g))

\* One group has a task in the queue and another one awaiting removeTask.
C15_Witness ==
    \E g \in Groups :
        /\ taskMutex = Free
        /\ numPending[g] = 2
        /\ \E t \in SeqToSet(tasks) : taskGroup[t] = g
        /\ \E w \in Workers : wpc[w] = "reacquire" /\ taskGroup[wtask[w]] = g

\* C16: the step in which a worker leaves its loop is taken after a wake-up,
\* inside stopped (), with the worker holding taskMutex, the queue empty and
\* the stopping flag set.
C16_WorkerExit ==
    [][\A w \in Workers :
          (wpc[w] # "exited" /\ wpc'[w] = "exited")
          => /\ wpc[w] = "inStopped"
             /\ taskMutex = w
             /\ tasks = <<>>
             /\ numTasks = 0
             /\ stopping]_vars

\* A worker has left its loop after the pool has run a queued task.
C16_Witness ==
    /\ \E w \in Workers : wpc[w] = "exited"
    /\ \E t \in SeqToSet(pushed) : hist[t].done

\* C17: when finish () deletes the workers of the list, each of them has
\* executed the threadSemaphore.post () at the top of run ().
C17_StartedBeforeJoin ==
    \A c \in Callers :
        pc[c] = "fJoin" => \A w \in SeqToSet(threads) : wpc[w] \notin {"none", "start"}

\* finish () deletes two workers, one of which has only just posted and has
\* not yet taken its shutdown token.
C17_Witness ==
    \E c \in Callers :
        /\ pc[c] = "fJoin"
        /\ Len(threads) = 2
        /\ \E w \in SeqToSet(threads) : wpc[w] = "waitTask"

\* The positions of setNumThreads after the finish () of its shrink branch.
AfterTeardown == {"sGrow2", "sInc2", "sRegrown"}

\* C18: in a shrinking setNumThreads, when finish () has left its join loop
\* every worker of the list has terminated and no other worker exists; from
\* the return of finish () on, the queue is empty, numTasks is 0, the stopping
\* flag is false, the only workers are those of the new list, none of which
\* has taken a task, so that the list is empty right after finish (); and when
\* setNumThreads (n) returns the list has n workers.
C18_FullStopAndRestart ==
    \A c \in Callers :
        /\ (op[c] = "setNumThreads" /\ pc[c] \in {"fLock1", "fLock2"}) =>
              \A w \in Workers :
                  wpc[w] = IF w \in SeqToSet(threads) THEN "exited" ELSE "none"
        /\ pc[c] \in AfterTeardown =>
              /\ tasks = <<>> /\ numTasks = 0 /\ ~stopping
              /\ Cardinality(SeqToSet(threads)) = Len(threads)
              /\ \A w \in Workers :
                    IF w \in SeqToSet(threads)
                    THEN wpc[w] \in {"start", "waitTask"} /\ wtask[w] = 0
                    ELSE wpc[w] = "none"
              /\ pc[c] = "sGrow2" => Len(threads) = numThreads
              /\ Len(threads) <= arg[c]
        /\ pc[c] = "sRegrown" => Len(threads) = arg[c] /\ numThreads = arg[c]

\* setNumThreads (1) is about to return on a pool of two workers that had run
\* two tasks; the new worker has started.
C18_Witness ==
    \E c \in Callers :
        /\ pc[c] = "sRegrown" /\ arg[c] = 1
        /\ Len(pushed) = 2
        /\ wpc[threads[1]] = "waitTask"

\* The workers that have passed taskSemaphore.wait () and not yet looked at
\* the queue.
Awake == {w \in Workers : wpc[w] = "lockTask"}

\* The number of taskSemaphore.post () calls the finish () in progress, if
\* any, has made so far.
ShutdownPosts ==
    LET F == {c \in Callers : pc[c] \in {"fLoop", "fWaitThread", "fJoin", "fLock1", "fLock2"}}
        c == CHOOSE d \in F : TRUE
    IN  IF F = {} THEN 0
        ELSE IF pc[c] = "fLoop" THEN idx[c]
        ELSE IF pc[c] = "fWaitThread" THEN idx[c] + 1
        ELSE numThreads

\* finish () has returned and no worker has been created since.
FinishReturned ==
    \E c \in Callers : pc[c] \in {"sGrow2", "sRegrown", "pRet"} /\ threads = <<>>

\* C19: the wake-up tokens, in taskSemaphore or taken by a worker that has not
\* yet looked at the queue, never outnumber the queued tasks plus the shutdown
\* posts of a finish () in progress; a worker that finds the queue empty does
\* so on a stopping pool; and when finish () has returned both semaphores are 0.
C19_TokenAccounting ==
    /\ taskSemaphore + Cardinality(Awake) <= numTasks + ShutdownPosts
    /\ \A w \in Workers : wpc[w] \in {"checkStop", "inStopped"} => stopping
    /\ ~stopping => Cardinality(Awake) <= numTasks
    /\ FinishReturned => taskSemaphore = 0 /\ threadSemaphore = 0

\* finish () has posted twice; one worker took a token for a queued task, the
\* other token is still in the semaphore.
C19_Witness ==
    /\ ShutdownPosts = 2
    /\ numTasks > 0
    /\ Awake # {}
    /\ taskSemaphore > 0

Threads == Workers \cup Callers

\* The place of a mutex in the order threadMutex, taskMutex, stopMutex.
Rank(m) == IF m = "threadMutex" THEN 1 ELSE IF m = "taskMutex" THEN 2 ELSE 3

\* The owner of a mutex.
Owner(m) == IF m = "threadMutex" THEN threadMutex
            ELSE IF m = "taskMutex" THEN taskMutex
            ELSE stopMutex

\* The mutex thread th is about to acquire ("none": its next step acquires none).
Wants(th) ==
    IF th \in Workers
    THEN IF wpc[th] \in {"lockTask", "reacquire"} THEN "taskMutex"
         ELSE IF wpc[th] = "checkStop" THEN "stopMutex"
         ELSE "none"
    ELSE IF pc[th] \in {"aLockThread", "sLockThread", "pLockThread"} THEN "threadMutex"
         ELSE IF pc[th] \in {"aLockTask", "fLock1"} THEN "taskMutex"
         ELSE IF pc[th] \in {"fStop", "fLock2"} THEN "stopMutex"
         ELSE "none"

\* C20: a thread about to acquire a mutex holds only mutexes that come before
\* it in the order threadMutex, taskMutex, stopMutex, so the mutexes a thread
\* holds were acquired in that order; and no two threads each wait for a
\* mutex the other holds.
C20_LockOrder ==
    /\ \A th \in Threads :
          Wants(th) # "none" => \A m \in Holds(th) : Rank(m) < Rank(Wants(th))
    /\ \A a, b \in Threads :
          (a # b /\ Wants(a) # "none" /\ Wants(b) # "none")
              => ~(Owner(Wants(a)) = b /\ Owner(Wants(b)) = a)

\* finish () holds threadMutex and taskMutex and is about to take stopMutex.
C20_Witness ==
    \E c \in Callers :
        /\ Holds(c) = {"threadMutex", "taskMutex"}
        /\ Wants(c) = "stopMutex"

====
